---- MODULE Spec2Model ----
(***************************************************************************)
(* A model of the LangChainTools repository:                               *)
(*   - src/http_client.py: get_with_retries, a GET with bounded retries    *)
(*     and linear backoff;                                                 *)
(*   - src/agent_weather_time.py: the four tools of the weather and time   *)
(*     agent (get_weather_for_location, get_forecast_for_location,         *)
(*     get_user_location, get_current_time).                               *)
(* SpecHttp is one call of get_with_retries, step by step.  SpecTools is a *)
(* sequence of tool calls, each tool being one synchronous handler.        *)
(* Strings are sequences of one-character strings.  The Cyrillic literals  *)
(* of the source are transliterated to ASCII.                              *)
(***************************************************************************)
EXTENDS Integers, Sequences, FiniteSets, TLC

VARIABLES
    \* ---- get_with_retries (src/http_client.py)
    pc,               \* "idle", "for", "get", "sleep", "done"
    retries,          \* the retries argument
    backoff_seconds,  \* the backoff_seconds argument (in whole seconds)
    attempt,          \* the loop variable of `for attempt in range(1, retries + 1)`
    last_exc,         \* the last caught exception, "None" when there is none
    gets,             \* the log of requests.get calls: the outcome of each
    sleeps,           \* the log of completed time.sleep calls: their durations
    ret,              \* how the call ended: None, a response, or a raised exception
    \* ---- the tools (src/agent_weather_time.py)
    tpc,              \* "idle", or "returned" when a tool call has just ended
    tool,             \* the tool of the call that has just ended, "none" when idle
    args,             \* its arguments (and what the provider and the clock answered)
    ctx,              \* the AgentContext the last tool that reads it was given
    providerCalls,    \* the provider functions the call invoked, with their argument
    listReads,        \* the indexes of daily_list the call read
    result,           \* how the call ended: a returned string or a raised exception
    prevTime          \* the call before it, when that was a get_current_time call

httpVars == <<pc, retries, backoff_seconds, attempt, last_exc, gets, sleeps, ret>>
toolVars == <<tpc, tool, args, ctx, providerCalls, listReads, result, prevTime>>
vars == <<httpVars, toolVars>>

\* ------------------------------------------------------------------ bounds

MaxRetries == 3
MaxBackoff == 2

\* ================================================================ HTTP client

\* The HTTP status codes a server may answer with.
Statuses == {200, 404, 500}

\* What requests.get may raise.  ConnectTimeout derives from both ConnectionError
\* and Timeout, ReadTimeout from Timeout, SSLError from ConnectionError; the
\* others derive from RequestException alone.
GetExceptions ==
    {"ConnectionError", "Timeout", "ConnectTimeout", "ReadTimeout", "SSLError",
     "TooManyRedirects", "InvalidURL"}

\* isinstance(exc, (requests.ConnectionError, requests.Timeout))
IsConnectionErrorOrTimeout(exc) ==
    exc \in {"ConnectionError", "Timeout", "ConnectTimeout", "ReadTimeout", "SSLError"}

\* Fault variant of Caught: `except Exception`, which catches everything.
CaughtAll(exc) == TRUE

\* The except clause of the retry loop.
Caught(exc) == IsConnectionErrorOrTimeout(exc)

\* The values a call ends with, and the entries of the log of GETs.
RetNone == [kind |-> "None", status |-> 0, attempt |-> 0, exc |-> "None"]
RetResponse(status, n) == [kind |-> "Response", status |-> status, attempt |-> n, exc |-> "None"]
RetRaise(exc) == [kind |-> "raise", status |-> 0, attempt |-> 0, exc |-> exc]
Pending == [kind |-> "pending", status |-> 0, attempt |-> 0, exc |-> "None"]

HttpInit ==
    /\ pc = "idle"
    /\ retries = 0
    /\ backoff_seconds = 0
    /\ attempt = 0
    /\ last_exc = "None"
    /\ gets = <<>>
    /\ sleeps = <<>>
    /\ ret = Pending

\* get_with_retries(url, retries=r, backoff_seconds=b) is entered.
Call(r, b) ==
    /\ pc = "idle"
    /\ retries' = r
    /\ backoff_seconds' = b
    /\ last_exc' = "None"
    /\ pc' = "for"
    /\ UNCHANGED <<attempt, gets, sleeps, ret, toolVars>>

\* Fault variant of ForNext: range(1, retries), one attempt short.
ForNextShort ==
    /\ pc = "for"
    /\ IF attempt + 1 <= retries - 1
         THEN attempt' = attempt + 1 /\ pc' = "get" /\ ret' = ret
         ELSE pc' = "done" /\ ret' = RetNone /\ attempt' = attempt
    /\ UNCHANGED <<retries, backoff_seconds, last_exc, gets, sleeps, toolVars>>

\* Fault variant of ForNext: a loop that tries once before testing retries.
ForNextAtLeastOnce ==
    /\ pc = "for"
    /\ IF attempt + 1 <= retries \/ attempt = 0
         THEN attempt' = attempt + 1 /\ pc' = "get" /\ ret' = ret
         ELSE pc' = "done" /\ ret' = RetNone /\ attempt' = attempt
    /\ UNCHANGED <<retries, backoff_seconds, last_exc, gets, sleeps, toolVars>>

\* `for attempt in range(1, retries + 1)`: the next value of the range, or, the
\* range exhausted, the `return None` after the loop.
ForNext ==
    /\ pc = "for"
    /\ IF attempt + 1 <= retries
         THEN attempt' = attempt + 1 /\ pc' = "get" /\ ret' = ret
         ELSE pc' = "done" /\ ret' = RetNone /\ attempt' = attempt
    /\ UNCHANGED <<retries, backoff_seconds, last_exc, gets, sleeps, toolVars>>

\* Fault variant of GetResponds: a 5xx answer is retried instead of returned.
GetRespondsRetry5xx(status) ==
    /\ pc = "get"
    /\ gets' = Append(gets, RetResponse(status, attempt))
    /\ IF status < 500
         THEN ret' = RetResponse(status, attempt) /\ pc' = "done"
         ELSE ret' = ret /\ pc' = "sleep"
    /\ UNCHANGED <<retries, backoff_seconds, attempt, last_exc, sleeps, toolVars>>

\* requests.get answers: `return resp`, whatever the status.
GetResponds(status) ==
    /\ pc = "get"
    /\ gets' = Append(gets, RetResponse(status, attempt))
    /\ ret' = RetResponse(status, attempt)
    /\ pc' = "done"
    /\ UNCHANGED <<retries, backoff_seconds, attempt, last_exc, sleeps, toolVars>>

\* requests.get raises exc: caught by the except clause (and then `break` on the
\* last attempt, which leads to `return None`, or on to time.sleep), or not
\* caught, and the exception leaves get_with_retries.
GetRaises(exc) ==
    /\ pc = "get"
    /\ gets' = Append(gets, RetRaise(exc))
    /\ IF Caught(exc)
         THEN /\ last_exc' = exc
              /\ IF attempt = retries
                   THEN pc' = "done" /\ ret' = RetNone
                   ELSE pc' = "sleep" /\ ret' = ret
         ELSE /\ last_exc' = last_exc
              /\ pc' = "done"
              /\ ret' = RetRaise(exc)
    /\ UNCHANGED <<retries, backoff_seconds, attempt, sleeps, toolVars>>

\* Fault variant of Sleep: time.sleep(backoff_seconds), a constant backoff.
SleepConstant ==
    /\ pc = "sleep"
    /\ IF backoff_seconds < 0
         THEN pc' = "done" /\ ret' = RetRaise("ValueError") /\ sleeps' = sleeps
         ELSE pc' = "for" /\ ret' = ret /\ sleeps' = Append(sleeps, backoff_seconds)
    /\ UNCHANGED <<retries, backoff_seconds, attempt, last_exc, gets, toolVars>>

\* time.sleep(backoff_seconds * attempt).  time.sleep raises ValueError for a
\* negative length, and nothing in get_with_retries catches it.
Sleep ==
    /\ pc = "sleep"
    /\ IF backoff_seconds * attempt < 0
         THEN pc' = "done" /\ ret' = RetRaise("ValueError") /\ sleeps' = sleeps
         ELSE pc' = "for" /\ ret' = ret /\ sleeps' = Append(sleeps, backoff_seconds * attempt)
    /\ UNCHANGED <<retries, backoff_seconds, attempt, last_exc, gets, toolVars>>

HttpNext ==
    \/ \E r \in (0 - 1)..MaxRetries, b \in (0 - 1)..MaxBackoff : Call(r, b)
    \/ ForNext
    \/ \E status \in Statuses : GetResponds(status)
    \/ \E exc \in GetExceptions : GetRaises(exc)
    \/ Sleep

\* ================================================================ Python values

\* The values the provider functions return are Python objects: None, numbers,
\* strings, lists and dicts.  Each is a tagged record; an operation that raises
\* yields the exception as a value tagged "exc", which later operations pass on.
PyNone == [t |-> "none"]
PyNum(n) == [t |-> "num", v |-> n]
PyStr(s) == [t |-> "str", v |-> s]
PyList(s) == [t |-> "list", v |-> s]
PyDict(f) == [t |-> "dict", v |-> f]
PyExc(name) == [t |-> "exc", v |-> name]
EmptyDict == PyDict([k \in {} |-> PyNone])

IsExc(o) == o.t = "exc"
IsNone(o) == o.t = "none"

\* isinstance(o, dict) and key in o
IsDictWith(o, key) == o.t = "dict" /\ key \in DOMAIN o.v

\* o[key] for a string key
GetKey(o, key) ==
    CASE o.t = "exc" -> o
      [] o.t = "dict" -> IF key \in DOMAIN o.v THEN o.v[key] ELSE PyExc("KeyError")
      [] OTHER -> PyExc("TypeError")

\* o[i] for an integer i >= 0
GetIndex(o, i) ==
    CASE o.t = "exc" -> o
      [] o.t = "list" -> IF i + 1 \in 1..Len(o.v) THEN o.v[i + 1] ELSE PyExc("IndexError")
      [] o.t = "str" -> IF i + 1 \in 1..Len(o.v) THEN PyStr(<<o.v[i + 1]>>) ELSE PyExc("IndexError")
      [] o.t = "dict" -> PyExc("KeyError")
      [] OTHER -> PyExc("TypeError")

\* o.get(key, default): only a dict has the method
GetDefault(o, key, default) ==
    CASE o.t = "exc" -> o
      [] o.t = "dict" -> IF key \in DOMAIN o.v THEN o.v[key] ELSE default
      [] OTHER -> PyExc("AttributeError")

\* o.get(key)
Get(o, key) == GetDefault(o, key, PyNone)

\* bool(o)
Truthy(o) ==
    CASE o.t = "none" -> FALSE
      [] o.t = "num" -> o.v # 0
      [] o.t = "str" -> Len(o.v) > 0
      [] o.t = "list" -> Len(o.v) > 0
      [] o.t = "dict" -> DOMAIN o.v # {}
      [] OTHER -> TRUE

\* a or b
PyOr(a, b) == IF IsExc(a) THEN a ELSE IF Truthy(a) THEN a ELSE b

\* len(o): the length as a number, or the TypeError of an object without one
PyLen(o) ==
    CASE o.t = "exc" -> o
      [] o.t \in {"list", "str"} -> PyNum(Len(o.v))
      [] o.t = "dict" -> PyNum(Cardinality(DOMAIN o.v))
      [] OTHER -> PyExc("TypeError")

\* f"{o:.1f}": numbers format (they are kept in tenths), a string raises
\* ValueError and anything else TypeError
Fmt1f(o) ==
    CASE o.t = "exc" -> o
      [] o.t = "num" -> o
      [] o.t = "str" -> PyExc("ValueError")
      [] OTHER -> PyExc("TypeError")

\* The first exception among the results of a block's statements, in the order
\* the block evaluates them; PyNone when none raised.
RECURSIVE FirstExc(_)
FirstExc(rs) ==
    IF rs = <<>> THEN PyNone
    ELSE IF IsExc(Head(rs)) THEN Head(rs) ELSE FirstExc(Tail(rs))

\* ================================================================ strings

MaxCityLen == 3

Whitespace == {" ", "\t"}
Chars == Whitespace \cup {"a"}

\* The city arguments: every string over Chars of at most MaxCityLen characters.
Cities == UNION {[1..n -> Chars] : n \in 0..MaxCityLen}

\* The city arguments the forecast tool is tried with.
ForecastCities == {<<>>, <<"a">>, <<" ", "a", "\t">>}

\* The literal the tools put in place of an empty city (transliterated).
UnknownCity ==
    <<"n", "e", "i", "z", "v", "e", "s", "t", "n", "y", "i", " ", "g", "o", "r", "o", "d">>

RECURSIVE LStrip(_)
LStrip(s) ==
    IF s = <<>> THEN s
    ELSE IF Head(s) \in Whitespace THEN LStrip(Tail(s)) ELSE s

RECURSIVE RStrip(_)
RStrip(s) ==
    IF s = <<>> THEN s
    ELSE IF s[Len(s)] \in Whitespace THEN RStrip(SubSeq(s, 1, Len(s) - 1)) ELSE s

\* str.strip()
Strip(s) == RStrip(LStrip(s))

\* Fault variant of NormalizeCity: city.lstrip() in place of city.strip().
NormalizeCityLeftOnly(city) == IF LStrip(city) = <<>> THEN UnknownCity ELSE LStrip(city)

\* city.strip() or <the placeholder>
NormalizeCity(city) == IF Strip(city) = <<>> THEN UnknownCity ELSE Strip(city)

\* ================================================================ the provider

\* A call of a provider function (weather_app, outside this repository's
\* sources) either returns a Python value or raises.
Returns(v) == [raises |-> FALSE, value |-> v]
Raises(exc) == [raises |-> TRUE, value |-> PyExc(exc)]

Timeout_ == <<"t", "i", "m", "e", "o", "u", "t">>
Oblachno == <<"o", "b", "l", "a", "c", "h", "n", "o">>
Moskva == <<"M", "o", "s", "k", "v", "a">>

ErrorRecord == PyDict([error |-> PyStr(Timeout_)])

\* The values get_weather_by_city may return: the current-weather record of the
\* weather service, whole or with parts missing or of another type, an error
\* record, or no record at all.
WeatherValues ==
    << PyDict([name |-> PyStr(Moskva),
               main |-> PyDict([temp |-> PyNum(56), humidity |-> PyNum(80)]),
               weather |-> PyList(<<PyDict([description |-> PyStr(Oblachno)])>>),
               wind |-> PyDict([speed |-> PyNum(32)])]),
       PyDict([name |-> PyStr(Moskva),
               main |-> PyDict([temp |-> PyNum(56)]),
               weather |-> PyList(<<PyDict([description |-> PyStr(Oblachno)])>>)]),
       ErrorRecord,
       PyDict([error |-> PyNone, name |-> PyStr(Moskva)]),
       PyNone,
       PyStr(Timeout_),
       PyList(<<>>),
       PyDict([cod |-> PyNum(404)]),
       PyDict([name |-> PyStr(Moskva), main |-> PyDict([humidity |-> PyNum(80)]),
               weather |-> PyList(<<PyDict([description |-> PyStr(Oblachno)])>>)]),
       PyDict([name |-> PyStr(Moskva), main |-> PyDict([temp |-> PyStr(Oblachno)]),
               weather |-> PyList(<<PyDict([description |-> PyStr(Oblachno)])>>)]),
       PyDict([name |-> PyStr(Moskva), main |-> PyDict([temp |-> PyNum(56)]),
               weather |-> PyList(<<>>)]),
       PyDict([name |-> PyStr(Moskva), main |-> PyDict([temp |-> PyNum(56)]),
               weather |-> PyList(<<PyDict([description |-> PyStr(Oblachno)])>>),
               wind |-> PyNone]) >>

\* What a provider function may raise (nothing in its contract, anything in fact).
ProviderExceptions == {"RuntimeError", "JSONDecodeError"}

WeatherOutcomes ==
    {Returns(WeatherValues[i]) : i \in 1..Len(WeatherValues)}
        \cup {Raises(e) : e \in ProviderExceptions}

\* ================================================================ the tools

Returned(msg) == [ret |-> "str", msg |-> msg]
Raised(exc) == [ret |-> "raise", exc |-> exc]
NoResult == [ret |-> "none"]
NoCall == [called |-> FALSE]

\* The try block of get_weather_for_location: the summary sentence, or the
\* sentence of the except clause with the exception in it.
WeatherSummary(city_norm, weather) ==
    LET name == GetKey(weather, "name")
        temp == GetKey(GetKey(weather, "main"), "temp")
        description == GetKey(GetIndex(GetKey(weather, "weather"), 0), "description")
        humidity == Get(GetKey(weather, "main"), "humidity")
        wind_speed == Get(GetDefault(weather, "wind", EmptyDict), "speed")
        e == FirstExc(<<name, temp, description, humidity, wind_speed, Fmt1f(temp)>>)
    IN  IF IsExc(e)
          THEN Returned([kind |-> "weather_unexpected_format", city |-> city_norm, exc |-> e.v])
          ELSE Returned([kind |-> "weather", name |-> name, temp |-> Fmt1f(temp),
                         description |-> description,
                         has_humidity |-> ~IsNone(humidity), humidity |-> humidity,
                         has_wind |-> ~IsNone(wind_speed), wind_speed |-> wind_speed])

\* get_weather_for_location after the provider call: what it ends with for the
\* provider's outcome.
WeatherResult(city_norm, outcome) ==
    IF outcome.raises THEN Raised(outcome.value.v)
    ELSE IF IsDictWith(outcome.value, "error")
      THEN Returned([kind |-> "weather_error", city |-> city_norm,
                     error |-> outcome.value.v["error"]])
      ELSE WeatherSummary(city_norm, outcome.value)

\* Fault variant of GetWeatherForLocation: the city is only left-stripped.
GetWeatherForLocationLeftStrip(city, outcome) ==
    LET city_norm == NormalizeCityLeftOnly(city)
    IN  /\ tpc = "idle"
        /\ tpc' = "returned"
        /\ tool' = "get_weather_for_location"
        /\ args' = [city |-> city, outcome |-> outcome]
        /\ providerCalls' = <<[fn |-> "get_weather_by_city", arg |-> city_norm]>>
        /\ listReads' = {}
        /\ result' = WeatherResult(city_norm, outcome)
        /\ UNCHANGED <<ctx, prevTime, httpVars>>

\* The tool get_weather_for_location(city), the provider answering with outcome.
GetWeatherForLocation(city, outcome) ==
    LET city_norm == NormalizeCity(city)
    IN  /\ tpc = "idle"
        /\ tpc' = "returned"
        /\ tool' = "get_weather_for_location"
        /\ args' = [city |-> city, outcome |-> outcome]
        /\ providerCalls' = <<[fn |-> "get_weather_by_city", arg |-> city_norm]>>
        /\ listReads' = {}
        /\ result' = WeatherResult(city_norm, outcome)
        /\ UNCHANGED <<ctx, prevTime, httpVars>>

\* ---------------------------------------------------------------- forecast

MaxDays == 3
MaxOffset == 4

\* The entries a daily list may hold: a whole entry, entries with parts missing
\* or of another type, and a value that is no record.
DailyItems ==
    << PyDict([temp |-> PyDict([min |-> PyNum(10), max |-> PyNum(56), day |-> PyNum(40)]),
               weather |-> PyList(<<PyDict([description |-> PyStr(Oblachno)])>>),
               humidity |-> PyNum(80), wind_speed |-> PyNum(32)]),
       PyDict([temp |-> PyDict([day |-> PyNum(40)]), weather |-> PyList(<<>>)]),
       EmptyDict,
       PyNone,
       PyDict([temp |-> PyDict([min |-> PyStr(Oblachno), max |-> PyNum(56)]),
               weather |-> PyList(<<PyNone>>)]) >>

\* The daily list of n entries that starts at the k-th kind of entry.
DailyList(n, k) ==
    PyList([i \in 1..n |-> DailyItems[((i + k) % Len(DailyItems)) + 1]])

\* The values get_daily_forecast_by_city may return: a record with a daily list
\* of 0..MaxDays entries, an error record (with or without a daily list), a
\* record without a daily list or with something else in its place, no record.
ForecastValues ==
    {PyDict([daily |-> DailyList(n, k)]) : n \in 0..MaxDays, k \in 1..Len(DailyItems)}
        \cup {ErrorRecord,
              PyDict([error |-> PyStr(Timeout_), daily |-> DailyList(1, 1)]),
              PyNone,
              PyList(<<>>),
              PyDict([cod |-> PyNum(404)]),
              PyDict([daily |-> PyNone]),
              PyDict([daily |-> PyNum(8)]),
              PyDict([daily |-> PyStr(Oblachno)]),
              PyDict([daily |-> PyDict([list |-> PyNone])])}

ForecastOutcomes ==
    {Returns(v) : v \in ForecastValues} \cup {Raises(e) : e \in ProviderExceptions}

NoDescription == <<"n", "e", "t", " ", "o", "p", "i", "s", "a", "n", "i", "y", "a">>

\* The day label of the forecast sentence.
DayLabel(day_offset) ==
    IF day_offset = 0 THEN [text |-> "segodnya", n |-> 0]
    ELSE IF day_offset = 1 THEN [text |-> "zavtra", n |-> 1]
    ELSE [text |-> "cherez N dney", n |-> day_offset]

\* The try block of get_forecast_for_location past the range check: the entry
\* at day_offset is read and the forecast sentence built from it.
ForecastSentence(city_norm, day_offset, daily_list) ==
    LET item == GetIndex(daily_list, day_offset)
        temp_block == PyOr(Get(item, "temp"), EmptyDict)
        temp_min == Get(temp_block, "min")
        temp_max == Get(temp_block, "max")
        temp_day == Get(temp_block, "day")
        weather_list == PyOr(Get(item, "weather"), PyList(<<>>))
        description ==
            IF IsExc(weather_list) THEN weather_list
            ELSE IF Truthy(weather_list)
              THEN Get(GetIndex(weather_list, 0), "description")
              ELSE PyStr(NoDescription)
        humidity == Get(item, "humidity")
        wind_speed == Get(item, "wind_speed")
        range == ~IsNone(temp_min) /\ ~IsNone(temp_max)
        e0 == FirstExc(<<item, temp_block, temp_min, temp_max, temp_day, weather_list,
                         description, humidity, wind_speed>>)
        e == IF IsExc(e0) THEN e0
             ELSE IF range THEN FirstExc(<<Fmt1f(temp_min), Fmt1f(temp_max)>>)
             ELSE IF ~IsNone(temp_day) THEN FirstExc(<<Fmt1f(temp_day)>>)
             ELSE PyNone
    IN  IF IsExc(e)
          THEN Returned([kind |-> "forecast_failed", city |-> city_norm, exc |-> e.v])
          ELSE Returned([kind |-> "forecast", city |-> city_norm,
                         day_label |-> DayLabel(day_offset),
                         description |-> description,
                         temperature |->
                             IF range
                               THEN [form |-> "from_to", a |-> Fmt1f(temp_min),
                                     b |-> Fmt1f(temp_max)]
                             ELSE IF ~IsNone(temp_day)
                               THEN [form |-> "around", a |-> Fmt1f(temp_day), b |-> PyNone]
                             ELSE [form |-> "absent", a |-> PyNone, b |-> PyNone],
                         has_humidity |-> ~IsNone(humidity), humidity |-> humidity,
                         has_wind |-> ~IsNone(wind_speed), wind_speed |-> wind_speed])

\* Fault variant of ForecastTry: the range check is day_offset > len(daily_list).
ForecastTryOffByOne(city_norm, day_offset, daily_data) ==
    LET daily_list == Get(daily_data, "daily")
        n == PyLen(daily_list)
    IN  IF IsExc(daily_list)
          THEN [result |-> Returned([kind |-> "forecast_failed", city |-> city_norm,
                                     exc |-> daily_list.v]),
                reads |-> {}]
        ELSE IF ~Truthy(daily_list)
          THEN [result |-> Returned([kind |-> "forecast_unexpected_format",
                                     city |-> city_norm]),
                reads |-> {}]
        ELSE IF IsExc(n)
          THEN [result |-> Returned([kind |-> "forecast_failed", city |-> city_norm,
                                     exc |-> n.v]),
                reads |-> {}]
        ELSE IF day_offset > n.v
          THEN [result |-> Returned([kind |-> "forecast_out_of_range", days |-> n.v,
                                     day_offset |-> day_offset]),
                reads |-> {}]
        ELSE [result |-> ForecastSentence(city_norm, day_offset, daily_list),
              reads |-> {day_offset}]

\* The try block of get_forecast_for_location: [result, reads], reads being the
\* indexes of daily_list that were read.
ForecastTry(city_norm, day_offset, daily_data) ==
    LET daily_list == Get(daily_data, "daily")
        n == PyLen(daily_list)
    IN  IF IsExc(daily_list)
          THEN [result |-> Returned([kind |-> "forecast_failed", city |-> city_norm,
                                     exc |-> daily_list.v]),
                reads |-> {}]
        ELSE IF ~Truthy(daily_list)
          THEN [result |-> Returned([kind |-> "forecast_unexpected_format",
                                     city |-> city_norm]),
                reads |-> {}]
        ELSE IF IsExc(n)
          THEN [result |-> Returned([kind |-> "forecast_failed", city |-> city_norm,
                                     exc |-> n.v]),
                reads |-> {}]
        ELSE IF day_offset >= n.v
          THEN [result |-> Returned([kind |-> "forecast_out_of_range", days |-> n.v,
                                     day_offset |-> day_offset]),
                reads |-> {}]
        ELSE [result |-> ForecastSentence(city_norm, day_offset, daily_list),
              reads |-> {day_offset}]

\* Fault variant of ForecastRun: the provider is called before day_offset is tested.
ForecastRunCallsFirst(city, day_offset, outcome) ==
    LET city_norm == NormalizeCity(city)
        call == <<[fn |-> "get_daily_forecast_by_city", arg |-> city_norm]>>
    IN  IF day_offset < 0
          THEN [result |-> Returned([kind |-> "negative_day_offset"]),
                calls |-> call, reads |-> {}]
        ELSE IF outcome.raises
          THEN [result |-> Raised(outcome.value.v), calls |-> call, reads |-> {}]
        ELSE IF IsDictWith(outcome.value, "error")
          THEN [result |-> Returned([kind |-> "forecast_error", city |-> city_norm,
                                     error |-> outcome.value.v["error"]]),
                calls |-> call, reads |-> {}]
        ELSE LET t == ForecastTry(city_norm, day_offset, outcome.value)
             IN  [result |-> t.result, calls |-> call, reads |-> t.reads]

\* get_forecast_for_location: [result, calls, reads] for the arguments and the
\* outcome the provider would answer with, were it called.
ForecastRun(city, day_offset, outcome) ==
    LET city_norm == NormalizeCity(city)
        call == <<[fn |-> "get_daily_forecast_by_city", arg |-> city_norm]>>
    IN  IF day_offset < 0
          THEN [result |-> Returned([kind |-> "negative_day_offset"]),
                calls |-> <<>>, reads |-> {}]
        ELSE IF outcome.raises
          THEN [result |-> Raised(outcome.value.v), calls |-> call, reads |-> {}]
        ELSE IF IsDictWith(outcome.value, "error")
          THEN [result |-> Returned([kind |-> "forecast_error", city |-> city_norm,
                                     error |-> outcome.value.v["error"]]),
                calls |-> call, reads |-> {}]
        ELSE LET t == ForecastTry(city_norm, day_offset, outcome.value)
             IN  [result |-> t.result, calls |-> call, reads |-> t.reads]

\* The tool get_forecast_for_location(city, day_offset).
GetForecastForLocation(city, day_offset, outcome) ==
    LET r == ForecastRun(city, day_offset, outcome)
    IN  /\ tpc = "idle"
        /\ tpc' = "returned"
        /\ tool' = "get_forecast_for_location"
        /\ args' = [city |-> city, day_offset |-> day_offset, outcome |-> outcome]
        /\ providerCalls' = r.calls
        /\ listReads' = r.reads
        /\ result' = r.result
        /\ UNCHANGED <<ctx, prevTime, httpVars>>

\* ---------------------------------------------------------------- location, time

\* The execution contexts of a conversation (AgentContext: default_city,
\* default_timezone; user_id and user_name are read by no tool).
DefaultContext == [default_city |-> "Irkutsk,ru", default_timezone |-> "Europe/Moscow"]

Contexts ==
    {DefaultContext, [default_city |-> "Moskva,ru", default_timezone |-> "Asia/Irkutsk"]}

\* The timezone argument of get_current_time: None or a zone name.
Timezones == {"None", "Europe/Moscow", "Asia/Irkutsk"}

\* The values datetime.now() may read off the host clock.
Clocks ==
    [year : {2025}, month : {12}, day : {31}, hour : {0, 23}, minute : {7},
     second : {5, 59}, microsecond : {0, 999999}]

Digits == <<"0", "1", "2", "3", "4", "5", "6", "7", "8", "9">>

\* The decimal digits of n, zero-padded to width w (%02d, %04d, %06d).
RECURSIVE Pad(_, _)
Pad(n, w) == IF w = 0 THEN <<>> ELSE Pad(n \div 10, w - 1) \o <<Digits[(n % 10) + 1]>>

\* now.strftime("%d.%m.%Y %H:%M:%S")
Strftime(now) ==
    Pad(now.day, 2) \o <<".">> \o Pad(now.month, 2) \o <<".">> \o Pad(now.year, 4)
        \o <<" ">> \o Pad(now.hour, 2) \o <<":">> \o Pad(now.minute, 2)
        \o <<":">> \o Pad(now.second, 2)

\* datetime.isoformat(): the fraction is printed only when microsecond is not 0.
Isoformat(dt) ==
    Pad(dt.year, 4) \o <<"-">> \o Pad(dt.month, 2) \o <<"-">> \o Pad(dt.day, 2)
        \o <<"T">> \o Pad(dt.hour, 2) \o <<":">> \o Pad(dt.minute, 2)
        \o <<":">> \o Pad(dt.second, 2)
        \o (IF dt.microsecond = 0 THEN <<>> ELSE <<".">> \o Pad(dt.microsecond, 6))

\* The hours a zone is ahead of the host clock, were the zone honoured.
ZoneShift(zone) == IF zone = "Asia/Irkutsk" THEN 5 ELSE 0

\* Fault variant of TimeResult: the timezone argument, or else the context's
\* default_timezone, shifts the clock.
TimeResultZoned(now, timezone, context) ==
    LET zone == IF timezone = "None" THEN context.default_timezone ELSE timezone
        local == [now EXCEPT !.hour = (now.hour + ZoneShift(zone)) % 24]
    IN  Returned([kind |-> "time", human |-> Strftime(local),
                  iso |-> Isoformat([local EXCEPT !.microsecond = 0])])

\* Fault variant of TimeResult: isoformat() without replace(microsecond=0).
TimeResultMicroseconds(now, timezone, context) ==
    Returned([kind |-> "time", human |-> Strftime(now), iso |-> Isoformat(now)])

\* The body of get_current_time: neither timezone nor the context is read.
TimeResult(now, timezone, context) ==
    LET iso_str == Isoformat([now EXCEPT !.microsecond = 0])
        human == Strftime(now)
    IN  Returned([kind |-> "time", human |-> human, iso |-> iso_str])

\* The tool get_user_location(runtime).
GetUserLocation(context) ==
    /\ tpc = "idle"
    /\ tpc' = "returned"
    /\ tool' = "get_user_location"
    /\ args' = [none |-> TRUE]
    /\ ctx' = context
    /\ providerCalls' = <<>>
    /\ listReads' = {}
    /\ result' = Returned([kind |-> "location", city |-> context.default_city])
    /\ UNCHANGED <<prevTime, httpVars>>

\* The tool get_current_time(runtime, timezone), the host clock reading now.
GetCurrentTime(context, timezone, now) ==
    /\ tpc = "idle"
    /\ tpc' = "returned"
    /\ tool' = "get_current_time"
    /\ args' = [timezone |-> timezone, now |-> now]
    /\ ctx' = context
    /\ providerCalls' = <<>>
    /\ listReads' = {}
    /\ result' = TimeResult(now, timezone, context)
    /\ UNCHANGED <<prevTime, httpVars>>

\* The tool's result is back with the agent runtime, which may call the next.
Return ==
    /\ tpc = "returned"
    /\ tpc' = "idle"
    /\ prevTime' = IF tool = "get_current_time"
                     THEN [called |-> TRUE, args |-> args, ctx |-> ctx, result |-> result]
                     ELSE NoCall
    /\ tool' = "none"
    /\ args' = [none |-> TRUE]
    /\ providerCalls' = <<>>
    /\ listReads' = {}
    /\ result' = NoResult
    /\ UNCHANGED <<ctx, httpVars>>

ToolsInit ==
    /\ tpc = "idle"
    /\ tool = "none"
    /\ args = [none |-> TRUE]
    /\ ctx = DefaultContext
    /\ providerCalls = <<>>
    /\ listReads = {}
    /\ result = NoResult
    /\ prevTime = NoCall

ToolsNext ==
    \/ \E city \in Cities, outcome \in WeatherOutcomes :
           GetWeatherForLocation(city, outcome)
    \/ \E city \in ForecastCities, day_offset \in (0 - 1)..MaxOffset,
          outcome \in ForecastOutcomes :
           GetForecastForLocation(city, day_offset, outcome)
    \/ \E context \in Contexts : GetUserLocation(context)
    \/ \E context \in Contexts, timezone \in Timezones, now \in Clocks :
           GetCurrentTime(context, timezone, now)
    \/ Return

\* ================================================================ specifications

Init == HttpInit /\ ToolsInit

Next == HttpNext \/ ToolsNext

\* One call of get_with_retries.
SpecHttp == Init /\ [][HttpNext]_vars

\* A sequence of tool calls.
SpecTools == Init /\ [][ToolsNext]_vars

Spec == Init /\ [][Next]_vars

\* ================================================================ claims: HTTP client

\* The attempt logged at position i failed with a connection error or a timeout.
FailedRetryably(i) == gets[i].kind = "raise" /\ IsConnectionErrorOrTimeout(gets[i].exc)

AllFailedRetryably == \A i \in 1..Len(gets) : FailedRetryably(i)

\* The linear backoff: the sleeps due before attempt n + 1.
Backoffs(n) == [i \in 1..n |-> backoff_seconds * i]

\* C1 as stated: for any retries >= 1, a call all of whose attempts fail with a
\* connection error or a timeout makes exactly `retries` GET attempts, never
\* more, and returns None (it neither raises nor returns a response).
C1_ExhaustionReturnsNone ==
    retries >= 1 =>
        /\ Len(gets) <= retries
        /\ (pc = "done" /\ AllFailedRetryably) => (Len(gets) = retries /\ ret = RetNone)

\* C1, amended: the same for a backoff_seconds that is not negative (or
\* retries = 1, when no sleep is due): time.sleep raises ValueError for a
\* negative length, and the call then ends with that exception after one GET.
C1_ExhaustionReturnsNoneValidBackoff ==
    (retries >= 1 /\ (backoff_seconds >= 0 \/ retries = 1)) =>
        /\ Len(gets) <= retries
        /\ (pc = "done" /\ AllFailedRetryably) => (Len(gets) = retries /\ ret = RetNone)

C1_Witness ==
    /\ pc = "done" /\ retries = 3 /\ backoff_seconds = 1
    /\ Len(gets) = 3 /\ AllFailedRetryably
    /\ ret = RetNone

\* C2 as stated: after a failed attempt k < retries the client sleeps
\* backoff_seconds * k and goes on to attempt k + 1; it sleeps neither after the
\* last failed attempt nor after a successful one; so every attempt n is
\* preceded by exactly the sleeps backoff_seconds * 1 .. backoff_seconds * (n - 1),
\* in that order, and a call never ends on a failed attempt k < retries.
C2_LinearBackoff ==
    /\ pc = "get" => sleeps = Backoffs(attempt - 1)
    /\ (pc = "done" /\ Len(gets) >= 1) =>
           /\ Len(sleeps) = Len(gets) - 1
           /\ FailedRetryably(Len(gets)) => Len(gets) = retries
    /\ (pc = "done" /\ retries = 3 /\ backoff_seconds = 1 /\ Len(gets) = 3
            /\ FailedRetryably(1) /\ FailedRetryably(2) /\ gets[3].kind = "Response") =>
           (sleeps = <<1, 2>> /\ ret = gets[3])

\* C2, amended: the same for a backoff_seconds that is not negative; with a
\* negative one the time.sleep after the first failed attempt raises ValueError,
\* no sleep happens and the call ends there.
C2_LinearBackoffValidBackoff ==
    /\ pc = "get" => sleeps = Backoffs(attempt - 1)
    /\ (pc = "done" /\ Len(gets) >= 1) =>
           /\ Len(sleeps) = Len(gets) - 1
           /\ (backoff_seconds >= 0 /\ FailedRetryably(Len(gets))) => Len(gets) = retries
    /\ (pc = "done" /\ retries = 3 /\ backoff_seconds = 1 /\ Len(gets) = 3
            /\ FailedRetryably(1) /\ FailedRetryably(2) /\ gets[3].kind = "Response") =>
           (sleeps = <<1, 2>> /\ ret = gets[3])

C2_Witness ==
    /\ pc = "done" /\ retries = 3 /\ backoff_seconds = 1 /\ Len(gets) = 3
    /\ gets[1].exc = "ConnectionError" /\ gets[2].exc = "ConnectionError"
    /\ gets[3].kind = "Response"
    /\ sleeps = <<1, 2>>
    /\ ret = gets[3]

\* C3: the first attempt that requests.get answers ends the call: that response
\* is what the call returns, whatever its status, and it is the last GET, with no
\* sleep after it.
C3_ResponseEndsCall ==
    \A i \in 1..Len(gets) :
        gets[i].kind = "Response" =>
            /\ i = Len(gets)
            /\ pc = "done"
            /\ ret.kind = "Response" /\ ret.status = gets[i].status /\ ret.attempt = i
            /\ Len(sleeps) = i - 1

C3_Witness ==
    /\ pc = "done" /\ retries = 3 /\ Len(gets) = 2
    /\ gets[2].kind = "Response" /\ gets[2].status = 500
    /\ ret.kind = "Response" /\ ret.status = 500
    /\ Len(sleeps) = 1

\* C4: an attempt that fails with anything but a connection error or a timeout
\* ends the call with that exception: it is the last GET, no sleep follows, even
\* when attempts remain.
C4_OtherFailuresPropagate ==
    \A i \in 1..Len(gets) :
        (gets[i].kind = "raise" /\ ~IsConnectionErrorOrTimeout(gets[i].exc)) =>
            /\ i = Len(gets)
            /\ pc = "done"
            /\ ret.kind = "raise" /\ ret.exc = gets[i].exc
            /\ Len(sleeps) = i - 1

C4_Witness ==
    /\ pc = "done" /\ retries = 3 /\ Len(gets) = 2
    /\ gets[2].exc = "TooManyRedirects"
    /\ ret.kind = "raise" /\ ret.exc = "TooManyRedirects"
    /\ Len(sleeps) = 1

\* C10: with retries <= 0 the call makes no GET attempt and no sleep, and ends
\* returning None.
C10_NoAttemptWithoutRetries ==
    retries <= 0 =>
        /\ gets = <<>>
        /\ sleeps = <<>>
        /\ pc \in {"idle", "for", "done"}
        /\ pc = "done" => ret = RetNone

C10_Witness ==
    /\ pc = "done" /\ retries = 0 - 1 /\ ret = RetNone /\ gets = <<>> /\ sleeps = <<>>

\* ================================================================ claims: tools

\* C5 as stated: none of the four tools raises: whatever the provider call ends
\* with (a well-formed record, an error record, a malformed value or no record,
\* an exception), the tool ends by returning a string.
C5_ToolsNeverRaise == tpc = "returned" => result.ret = "str"

\* C6: get_forecast_for_location with a negative day_offset returns the fixed
\* rejection message without calling the provider; the provider is called only
\* when day_offset >= 0.
C6_NegativeOffsetRejected ==
    tool = "get_forecast_for_location" =>
        /\ args.day_offset < 0 =>
               /\ result.ret = "str" /\ result.msg.kind = "negative_day_offset"
               /\ providerCalls = <<>>
        /\ providerCalls # <<>> => args.day_offset >= 0

C6_Witness ==
    /\ tool = "get_forecast_for_location" /\ args.day_offset = 0 - 1
    /\ result.ret = "str" /\ result.msg.kind = "negative_day_offset"
    /\ providerCalls = <<>>

\* The provider returned a daily-forecast record (not an error record) whose
\* daily member is a list.
ReturnedDailyList ==
    /\ ~args.outcome.raises
    /\ args.outcome.value.t = "dict"
    /\ "daily" \in DOMAIN args.outcome.value.v
    /\ "error" \notin DOMAIN args.outcome.value.v
    /\ args.outcome.value.v["daily"].t = "list"

DailyLen == Len(args.outcome.value.v["daily"].v)

\* The out-of-range message with the number of days returned and the offset
\* asked for, no entry of the list having been read.
OutOfRangeAnswer ==
    /\ result.ret = "str"
    /\ result.msg.kind = "forecast_out_of_range"
    /\ result.msg.days = DailyLen
    /\ result.msg.day_offset = args.day_offset
    /\ listReads = {}

\* C7 as stated: whenever the provider returns a daily list and the day_offset
\* asked for (not negative) is not smaller than the number of its entries, the
\* tool returns the out-of-range message, reading no entry and raising nothing.
C7_OutOfRangeOffset ==
    (tool = "get_forecast_for_location" /\ args.day_offset >= 0
        /\ ReturnedDailyList /\ args.day_offset >= DailyLen) => OutOfRangeAnswer

\* C7, amended: the same for a daily list that is not empty; an empty list gets
\* the unexpected-format message instead.
C7_OutOfRangeOffsetNonEmpty ==
    (tool = "get_forecast_for_location" /\ args.day_offset >= 0
        /\ ReturnedDailyList /\ DailyLen >= 1 /\ args.day_offset >= DailyLen)
            => OutOfRangeAnswer

C7_Witness ==
    /\ tool = "get_forecast_for_location" /\ args.day_offset = 4
    /\ ReturnedDailyList /\ DailyLen = 3
    /\ OutOfRangeAnswer

IsBlank(s) == \A i \in 1..Len(s) : s[i] \in Whitespace

\* t is s without its leading and trailing whitespace.
IsTrimOf(t, s) ==
    \E i \in 1..Len(s), j \in 1..Len(s) :
        /\ i <= j
        /\ t = SubSeq(s, i, j)
        /\ s[i] \notin Whitespace /\ s[j] \notin Whitespace
        /\ \A k \in 1..Len(s) : (k < i \/ k > j) => s[k] \in Whitespace

\* C8: get_weather_for_location queries the provider exactly once, with the city
\* stripped of leading and trailing whitespace, or with the placeholder when
\* nothing is left; its error messages carry that same name.
C8_CityNormalized ==
    tool = "get_weather_for_location" =>
        /\ Len(providerCalls) = 1
        /\ providerCalls[1].fn = "get_weather_by_city"
        /\ IF IsBlank(args.city)
             THEN providerCalls[1].arg = UnknownCity
             ELSE IsTrimOf(providerCalls[1].arg, args.city)
        /\ (result.ret = "str"
               /\ result.msg.kind \in {"weather_error", "weather_unexpected_format"}) =>
               result.msg.city = providerCalls[1].arg

C8_Witness ==
    /\ tool = "get_weather_for_location"
    /\ args.city = <<" ", "a", "\t">>
    /\ providerCalls = <<[fn |-> "get_weather_by_city", arg |-> <<"a">>]>>
    /\ result.ret = "str" /\ result.msg.kind = "weather_error"
    /\ result.msg.city = <<"a">>

DigitValue(c) == CHOOSE d \in 0..9 : Digits[d + 1] = c

\* The number written in s[from..to].
RECURSIVE Number(_, _, _)
Number(s, from, to) ==
    IF to < from THEN 0 ELSE 10 * Number(s, from, to - 1) + DigitValue(s[to])

\* <<year, month, day, hour, minute, second>> of dd.mm.YYYY HH:MM:SS
ParseHuman(s) ==
    <<Number(s, 7, 10), Number(s, 4, 5), Number(s, 1, 2),
      Number(s, 12, 13), Number(s, 15, 16), Number(s, 18, 19)>>

\* <<year, month, day, hour, minute, second>> of YYYY-mm-ddTHH:MM:SS
ParseIso(s) ==
    <<Number(s, 1, 4), Number(s, 6, 7), Number(s, 9, 10),
      Number(s, 12, 13), Number(s, 15, 16), Number(s, 18, 19)>>

\* C9: get_current_time returns a string whose ISO timestamp has no fraction of
\* a second and names the same second as the human-readable one; and two calls
\* that read the same clock value return the same string, whatever their
\* timezone argument and context.
C9_TimeIgnoresTimezone ==
    tool = "get_current_time" =>
        /\ result.ret = "str"
        /\ Len(result.msg.iso) = 19
        /\ \A i \in 1..Len(result.msg.iso) : result.msg.iso[i] # "."
        /\ ParseIso(result.msg.iso) = ParseHuman(result.msg.human)
        /\ ParseIso(result.msg.iso) =
               <<args.now.year, args.now.month, args.now.day,
                 args.now.hour, args.now.minute, args.now.second>>
        /\ (prevTime.called /\ prevTime.args.now = args.now) =>
               (prevTime.result.msg.iso = result.msg.iso
                   /\ prevTime.result.msg.human = result.msg.human)

C9_Witness ==
    /\ tool = "get_current_time"
    /\ prevTime.called
    /\ prevTime.args.now = args.now
    /\ prevTime.args.timezone = "Asia/Irkutsk" /\ args.timezone = "None"
    /\ prevTime.ctx # ctx
    /\ args.now.microsecond # 0
    /\ prevTime.result.msg.iso = result.msg.iso
    /\ prevTime.result.msg.human = result.msg.human

====
